---- MODULE Spec2Model ----
(***************************************************************************)
(* UrdfTransformManager (pytransform/urdf.py): a transformation manager    *)
(* that loads URDF documents into a frame graph and keeps a registry of    *)
(* revolute joints whose child-to-parent transform is recomputed from a    *)
(* joint angle.                                                            *)
(*                                                                         *)
(* Numbers.  Translations are integers.  Angles are counted in quarter     *)
(* turns (1 stands for pi/2), so that cos and sin are exact and every      *)
(* rotation matrix has integer entries.                                    *)
(***************************************************************************)
EXTENDS Integers, Sequences, FiniteSets, TLC

VARIABLES
    transforms,  \* the frame graph: (from_frame, to_frame) -> 4x4 transform
    joints,      \* self._joints: joint name -> record
    pc,          \* where load_urdf stands: "idle", "links", "joints", "commit",
                 \* "return"
    nodes,       \* load_urdf's dict of nodes
    k,           \* load_urdf's place in the loop it is in
    call,        \* the last call and its arguments
    result,      \* "ok", or the error the last call raised
    pre,         \* the stores when the last call began
    ncalls,      \* calls made
    urdf,        \* the document load_urdf is reading
    registered,  \* what add_joint was last handed under each joint name
    static       \* the joint names load_urdf committed as a plain transform

vars == <<transforms, joints, pc, nodes, k, call, result, pre, ncalls, urdf,
          registered, static>>

(***************************************************************************)
(* Bounds of the explored sessions.                                        *)
(***************************************************************************)
MaxElems == 3
MaxCalls == 3

(***************************************************************************)
(* Transform algebra (pytransform.rotations, pytransform.transformations). *)
(***************************************************************************)
Cos4(a) == CASE a % 4 = 0 -> 1 [] a % 4 = 1 -> 0 [] a % 4 = 2 -> -1 [] OTHER -> 0

Sin4(a) == CASE a % 4 = 0 -> 0 [] a % 4 = 1 -> 1 [] a % 4 = 2 -> 0 [] OTHER -> -1

Eye3 == << <<1, 0, 0>>, <<0, 1, 0>>, <<0, 0, 1>> >>

Eye4 == << <<1, 0, 0, 0>>, <<0, 1, 0, 0>>, <<0, 0, 1, 0>>, <<0, 0, 0, 1>> >>

Zeros3 == <<0, 0, 0>>

Dot3(A, B) ==
    [i \in 1..3 |-> [j \in 1..3 |->
        A[i][1] * B[1][j] + A[i][2] * B[2][j] + A[i][3] * B[3][j]]]

Dot4(A, B) ==
    [i \in 1..4 |-> [j \in 1..4 |->
        A[i][1] * B[1][j] + A[i][2] * B[2][j] + A[i][3] * B[3][j]
          + A[i][4] * B[4][j]]]

\* numpy's R.T
Transpose3(R) == [i \in 1..3 |-> [j \in 1..3 |-> R[j][i]]]

\* Rotation about one basis vector (0: x, 1: y, 2: z).
matrix_from_angle(basis, angle) ==
    LET c == Cos4(angle)
        s == Sin4(angle)
    IN  CASE basis = 0 -> << <<1, 0, 0>>, <<0, c, -s>>, <<0, s, c>> >>
          [] basis = 1 -> << <<c, 0, s>>, <<0, 1, 0>>, <<-s, 0, c>> >>
          [] OTHER     -> << <<c, -s, 0>>, <<s, c, 0>>, <<0, 0, 1>> >>

\* Intrinsic x-y'-z'' Euler angles e = (alpha, beta, gamma).
matrix_from_euler_xyz(e) ==
    Dot3(Dot3(matrix_from_angle(0, e[1]), matrix_from_angle(1, e[2])),
         matrix_from_angle(2, e[3]))

\* Rodrigues' formula for a = (ux, uy, uz, theta).
matrix_from_axis_angle(a) ==
    LET ux == a[1]
        uy == a[2]
        uz == a[3]
        c  == Cos4(a[4])
        s  == Sin4(a[4])
        ci == 1 - c
    IN  << <<ci * ux * ux + c,      ci * ux * uy - uz * s, ci * ux * uz + uy * s>>,
           <<ci * uy * ux + uz * s, ci * uy * uy + c,      ci * uy * uz - ux * s>>,
           <<ci * uz * ux - uy * s, ci * uz * uy + ux * s, ci * uz * uz + c>> >>

\* 4x4 homogeneous transform from a rotation matrix and a translation.
transform_from(R, p) ==
    [i \in 1..4 |-> [j \in 1..4 |->
        IF i <= 3 /\ j <= 3 THEN R[i][j]
        ELSE IF i <= 3 THEN p[i]
        ELSE IF j = 4 THEN 1 ELSE 0]]

\* concat(A2B, B2C) is A2C: A2B is applied first, B2C second.
concat(A2B, B2C) == Dot4(B2C, A2B)

RotationOf(A2B) == [i \in 1..3 |-> [j \in 1..3 |-> A2B[i][j]]]

TranslationOf(A2B) == [i \in 1..3 |-> A2B[i][4]]

(***************************************************************************)
(* Frame graph (TransformManager): add_transform upserts the edge.         *)
(***************************************************************************)
add_transform(T, from_frame, to_frame, A2B) ==
    [e \in DOMAIN T \cup {<<from_frame, to_frame>>} |->
        IF e = <<from_frame, to_frame>> THEN A2B ELSE T[e]]

NoTransforms == [e \in {} |-> Eye4]

Frames(T) == {e[1] : e \in DOMAIN T} \cup {e[2] : e \in DOMAIN T}

(***************************************************************************)
(* Joint registry: add_joint and set_joint on the pair of stores.          *)
(***************************************************************************)
NoJoints == [n \in {} |-> [from_frame |-> "", to_frame |-> "",
                           child2parent |-> Eye4, axis |-> <<1, 0, 0>>]]

add_joint(T, J, joint_name, from_frame, to_frame, child2parent, axis) ==
    [transforms |-> add_transform(T, from_frame, to_frame, child2parent),
     joints |-> [n \in DOMAIN J \cup {joint_name} |->
                    IF n = joint_name
                    THEN [from_frame |-> from_frame, to_frame |-> to_frame,
                          child2parent |-> child2parent, axis |-> axis]
                    ELSE J[n]]]

\* Mutant of JointTransform: the arguments of concat are exchanged.
JointTransformSwapped(child2parent, axis, angle) ==
    LET joint_rotation == matrix_from_axis_angle(axis \o <<angle>>)
        joint2A == transform_from(joint_rotation, Zeros3)
    IN  concat(child2parent, joint2A)

\* Lines 61-63: the transform set_joint commits for a joint at an angle.
JointTransform(child2parent, axis, angle) ==
    LET joint_rotation == matrix_from_axis_angle(axis \o <<angle>>)
        joint2A == transform_from(joint_rotation, Zeros3)
    IN  concat(joint2A, child2parent)

\* Mutant of RecordAfterSet: the committed transform is written back to the
\* record.
RecordWrittenBack(record, committed) == [record EXCEPT !.child2parent = committed]

\* Lines 60-63: the record of the joint is read, never written.
RecordAfterSet(record, committed) == record

\* Mutant of set_joint: the rotation is composed with the edge as it stands,
\* not with the transform the joint was registered with.
set_joint_accumulating(T, J, joint_name, angle) ==
    LET j == J[joint_name]
        A2B == JointTransform(T[<<j.from_frame, j.to_frame>>], j.axis, angle)
    IN  [transforms |-> add_transform(T, j.from_frame, j.to_frame, A2B),
         joints |-> [J EXCEPT ![joint_name] = RecordAfterSet(j, A2B)]]

set_joint(T, J, joint_name, angle) ==
    LET j == J[joint_name]
        A2B == JointTransform(j.child2parent, j.axis, angle)
    IN  [transforms |-> add_transform(T, j.from_frame, j.to_frame, A2B),
         joints |-> [J EXCEPT ![joint_name] = RecordAfterSet(j, A2B)]]

(***************************************************************************)
(* Document accessor (BeautifulSoup): an element is a tag, its attributes  *)
(* (a function from attribute names to strings) and its child elements.    *)
(***************************************************************************)
NoAttrs == [a \in {} |-> ""]

Elem(tag, attrs, children) == [tag |-> tag, attrs |-> attrs, children |-> children]

has_attr(e, a) == a \in DOMAIN e.attrs

RECURSIVE DescendantsOfAll(_)
\* All descendants of the elements es, in document order.
DescendantsOfAll(es) ==
    IF es = << >> THEN << >>
    ELSE <<Head(es)>> \o DescendantsOfAll(Head(es).children)
                      \o DescendantsOfAll(Tail(es))

findAll(e, tag) == SelectSeq(DescendantsOfAll(e.children), LAMBDA d : d.tag = tag)

Found(e, tag) == findAll(e, tag) # << >>

find(e, tag) == Head(findAll(e, tag))

\* np.fromstring(s, sep=" ") on the attribute values that occur.  An angle
\* written in radians is read in quarter turns: 1.5708 is 1, 3.1416 is 2,
\* -1.5708 is 3.
fromstring(s) ==
    CASE s = "1 0 0" -> <<1, 0, 0>>
      [] s = "0 1 0" -> <<0, 1, 0>>
      [] s = "0 0 1" -> <<0, 0, 1>>
      [] s = "0 2 3" -> <<0, 2, 3>>
      [] s = "0 0 1.5708" -> <<0, 0, 1>>
      [] s = "1.5708 1.5708 0" -> <<1, 1, 0>>
      [] s = "0 -1.5708 1.5708" -> <<0, 3, 1>>

(***************************************************************************)
(* Node: one per link while a document is parsed (class Node).  A field    *)
(* that is None in the code is "None" (a name) or << >> (the axis).        *)
(***************************************************************************)
None == "None"

Node(child, parent) ==
    [child |-> child, parent |-> parent, child2parent |-> Eye4,
     joint_name |-> None, joint_axis |-> << >>, joint_type |-> "fixed"]

\* The dict nodes, in insertion order: a sequence of nodes with distinct
\* child names; nodes[key] = node keeps the place of a key already there.
NodesHas(ns, key) == \E i \in 1..Len(ns) : ns[i].child = key

NodesGet(ns, key) == ns[CHOOSE i \in 1..Len(ns) : ns[i].child = key]

NodesPut(ns, key, node) ==
    IF NodesHas(ns, key)
    THEN [i \in 1..Len(ns) |-> IF ns[i].child = key THEN node ELSE ns[i]]
    ELSE Append(ns, node)

(***************************************************************************)
(* load_urdf, statement by statement.  Each operator returns the error it  *)
(* raises ("ok" when none) and the value it leaves.                        *)
(***************************************************************************)
RobotOf(doc) == find(doc, "robot")

\* Mutant of LinksOf: one pass over the document, in which a joint sees only
\* the links that stand before the first joint.
LinksBeforeFirstJoint(doc) ==
    LET es == DescendantsOfAll(RobotOf(doc).children)
        firstJoint ==
            IF \E i \in 1..Len(es) : es[i].tag = "joint"
            THEN CHOOSE i \in 1..Len(es) :
                    /\ es[i].tag = "joint"
                    /\ \A n \in 1..(i - 1) : es[n].tag # "joint"
            ELSE Len(es) + 1
    IN  SelectSeq(SubSeq(es, 1, firstJoint - 1), LAMBDA d : d.tag = "link")

LinksOf(doc) == findAll(RobotOf(doc), "link")

JointsOf(doc) == findAll(RobotOf(doc), "joint")

\* Lines 76-83: the robot tag and its name.
CheckRobot(doc) ==
    IF ~Found(doc, "robot") THEN "MissingRobotElement"
    ELSE IF ~has_attr(RobotOf(doc), "name") THEN "MissingRobotName"
    ELSE "ok"

\* _parse_link followed by nodes[node.child] = node.
ParseLink(ns, link, robot_name) ==
    IF ~has_attr(link, "name") THEN [err |-> "MissingLinkName", nodes |-> ns]
    ELSE [err |-> "ok",
          nodes |-> NodesPut(ns, link.attrs.name, Node(link.attrs.name, robot_name))]

\* Mutant of UnsupportedTypes: continuous is left out of the list.
UnsupportedTypesShort == {"planar", "floating", "prismatic"}

UnsupportedTypes == {"planar", "floating", "continuous", "prismatic"}

AllowedTypes == {"revolute", "fixed"}

\* Mutant of OriginRotation: the matrix is not transposed.
OriginRotationRaw(rpy) == matrix_from_euler_xyz(rpy)

\* Line 170: the rotation of an origin with roll, pitch and yaw.
OriginRotation(rpy) == Transpose3(matrix_from_euler_xyz(rpy))

\* Lines 154-171: the origin of a joint as a child-to-parent transform.

ParseOrigin(joint) ==
    LET origin == find(joint, "origin")
        translation ==
            IF Found(joint, "origin") /\ has_attr(origin, "xyz")
            THEN fromstring(origin.attrs.xyz) ELSE Zeros3
        rotation ==
            IF Found(joint, "origin") /\ has_attr(origin, "rpy")
            THEN OriginRotation(fromstring(origin.attrs.rpy)) ELSE Eye3
    IN  transform_from(rotation, translation)

\* Lines 173-177: the axis of a joint.
ParseAxis(joint, joint_type) ==
    IF joint_type = "revolute" /\ Found(joint, "axis")
         /\ has_attr(find(joint, "axis"), "xyz")
    THEN fromstring(find(joint, "axis").attrs.xyz)
    ELSE <<1, 0, 0>>

\* Mutant of ParseJoint: line 144 is missing, the node keeps the parent it
\* was made with.
ParseJointKeepsParent(joint, node, parent_name) ==
    LET named == [node EXCEPT !.joint_name = joint.attrs.name,
                              !.joint_type = joint.attrs.type]
    IN  IF named.joint_type \in UnsupportedTypes
        THEN [err |-> "UnsupportedJointType", node |-> named]
        ELSE IF named.joint_type \notin AllowedTypes
        THEN [err |-> "InvalidJointType", node |-> named]
        ELSE [err |-> "ok",
              node |-> [named EXCEPT
                          !.child2parent = ParseOrigin(joint),
                          !.joint_axis = ParseAxis(joint, named.joint_type)]]

\* _parse_joint: the node is updated in place, also when the type is refused.
ParseJoint(joint, node, parent_name) ==
    LET named == [node EXCEPT !.joint_name = joint.attrs.name,
                              !.joint_type = joint.attrs.type,
                              !.parent = parent_name]
    IN  IF named.joint_type \in UnsupportedTypes
        THEN [err |-> "UnsupportedJointType", node |-> named]
        ELSE IF named.joint_type \notin AllowedTypes
        THEN [err |-> "InvalidJointType", node |-> named]
        ELSE [err |-> "ok",
              node |-> [named EXCEPT
                          !.child2parent = ParseOrigin(joint),
                          !.joint_axis = ParseAxis(joint, named.joint_type)]]

\* Mutant of MergeJoint: the joint is committed as soon as it is parsed.
MergeJointEager(T, J, ns, joint) ==
    LET child_name == find(joint, "child").attrs.link
        r == ParseJoint(joint, NodesGet(ns, child_name),
                        find(joint, "parent").attrs.link)
        s == IF r.err # "ok" THEN [transforms |-> T, joints |-> J]
             ELSE IF r.node.joint_type = "revolute"
             THEN add_joint(T, J, r.node.joint_name, r.node.child, r.node.parent,
                            r.node.child2parent, r.node.joint_axis)
             ELSE [transforms |-> add_transform(T, r.node.child, r.node.parent,
                                                r.node.child2parent),
                   joints |-> J]
    IN  [err |-> r.err, nodes |-> NodesPut(ns, child_name, r.node),
         transforms |-> s.transforms, joints |-> s.joints]

\* Line 123: the joint is merged onto the node of its child link.  Only the
\* nodes are written: the stores T (transforms) and J (joints) are left alone.
MergeJoint(T, J, ns, joint) ==
    LET child_name == find(joint, "child").attrs.link
        r == ParseJoint(joint, NodesGet(ns, child_name),
                        find(joint, "parent").attrs.link)
    IN  [err |-> r.err, nodes |-> NodesPut(ns, child_name, r.node),
         transforms |-> T, joints |-> J]

\* Lines 91-123: the body of the loop over the joints.
CheckJoint(T, J, ns, joint) ==
    LET raise(e) == [err |-> e, nodes |-> ns, transforms |-> T, joints |-> J]
    IN  IF ~has_attr(joint, "name") THEN raise("MissingJointName")
        ELSE IF ~has_attr(joint, "type") THEN raise("MissingJointType")
        ELSE IF ~Found(joint, "parent") THEN raise("MissingJointParent")
        ELSE IF ~has_attr(find(joint, "parent"), "link")
        THEN raise("MissingParentLinkName")
        ELSE IF ~NodesHas(ns, find(joint, "parent").attrs.link)
        THEN raise("UnknownParentLink")
        ELSE IF ~Found(joint, "child") THEN raise("MissingJointChild")
        ELSE IF ~has_attr(find(joint, "child"), "link")
        THEN raise("MissingChildLinkName")
        ELSE IF ~NodesHas(ns, find(joint, "child").attrs.link)
        THEN raise("UnknownChildLink")
        ELSE MergeJoint(T, J, ns, joint)

(***************************************************************************)
(* load_urdf, last loop: the nodes are materialized.                       *)
(***************************************************************************)
\* Lines 126-128: what a node hands to add_joint, under its joint name.
RegisteredBy(node) ==
    IF node.joint_type = "revolute"
    THEN [n \in {node.joint_name} |->
            [from_frame |-> node.child, to_frame |-> node.parent,
             child2parent |-> node.child2parent, axis |-> node.joint_axis]]
    ELSE NoJoints

\* Lines 129-130: the joint names of a node committed by add_transform alone.
StaticBy(node) ==
    IF node.joint_type # "revolute" /\ node.joint_name # None
    THEN {node.joint_name} ELSE {}

\* Mutant of CommitNode: every node that carries a joint is registered,
\* whatever its type.
CommitNodeAll(T, J, node) ==
    IF node.joint_name # None
    THEN add_joint(T, J, node.joint_name, node.child, node.parent,
                   node.child2parent, <<1, 0, 0>>)
    ELSE [transforms |-> add_transform(T, node.child, node.parent, node.child2parent),
          joints |-> J]

\* Lines 125-130: one node is materialized.
CommitNode(T, J, node) ==
    IF node.joint_type = "revolute"
    THEN add_joint(T, J, node.joint_name, node.child, node.parent,
                   node.child2parent, node.joint_axis)
    ELSE [transforms |-> add_transform(T, node.child, node.parent, node.child2parent),
          joints |-> J]

(***************************************************************************)
(* load_urdf as one function of the stores and the document: the error it  *)
(* raises ("ok" when none) and the stores it leaves.                        *)
(***************************************************************************)
RECURSIVE LinkLoop(_, _, _)
LinkLoop(ns, links, robot_name) ==
    IF links = << >> THEN [err |-> "ok", nodes |-> ns]
    ELSE LET r == ParseLink(ns, Head(links), robot_name)
         IN  IF r.err # "ok" THEN r ELSE LinkLoop(r.nodes, Tail(links), robot_name)

RECURSIVE JointLoop(_, _, _, _)
JointLoop(T, J, ns, js) ==
    IF js = << >> THEN [err |-> "ok", nodes |-> ns, transforms |-> T, joints |-> J]
    ELSE LET r == CheckJoint(T, J, ns, Head(js))
         IN  IF r.err # "ok" THEN r
             ELSE JointLoop(r.transforms, r.joints, r.nodes, Tail(js))

RECURSIVE CommitLoop(_, _, _)
CommitLoop(T, J, ns) ==
    IF ns = << >> THEN [transforms |-> T, joints |-> J]
    ELSE LET s == CommitNode(T, J, Head(ns))
         IN  CommitLoop(s.transforms, s.joints, Tail(ns))

load_urdf(T, J, doc) ==
    IF CheckRobot(doc) # "ok"
    THEN [err |-> CheckRobot(doc), transforms |-> T, joints |-> J]
    ELSE LET l == LinkLoop(<< >>, LinksOf(doc), RobotOf(doc).attrs.name)
         IN  IF l.err # "ok" THEN [err |-> l.err, transforms |-> T, joints |-> J]
             ELSE LET j == JointLoop(T, J, l.nodes, JointsOf(doc))
                  IN  IF j.err # "ok"
                      THEN [err |-> j.err, transforms |-> j.transforms,
                            joints |-> j.joints]
                      ELSE [err |-> "ok"] @@ CommitLoop(j.transforms, j.joints, j.nodes)

(***************************************************************************)
(* The position of load_urdf after one loop body: the next link, the next  *)
(* joint, the next node, or "return" once the last loop is through.        *)
(***************************************************************************)
Position(doc, ns, phase, next) ==
    LET atCommit(i) == IF i <= Len(ns) THEN <<"commit", i>> ELSE <<"return", 0>>
        atJoints(i) == IF i <= Len(JointsOf(doc)) THEN <<"joints", i>>
                       ELSE atCommit(1)
        atLinks(i)  == IF i <= Len(LinksOf(doc)) THEN <<"links", i>>
                       ELSE atJoints(1)
    IN  CASE phase = "links"  -> atLinks(next)
          [] phase = "joints" -> atJoints(next)
          [] OTHER            -> atCommit(next)

NoDoc == Elem("[document]", NoAttrs, << >>)

Stores == [transforms |-> transforms, joints |-> joints]

Init ==
    /\ transforms = NoTransforms
    /\ joints = NoJoints
    /\ pc = "idle"
    /\ nodes = << >>
    /\ k = 0
    /\ result = "none"
    /\ call = [op |-> "__init__"]
    /\ pre = [transforms |-> NoTransforms, joints |-> NoJoints]
    /\ ncalls = 0
    /\ urdf = NoDoc
    /\ registered = NoJoints
    /\ static = {}

\* load_urdf is about to leave, with "ok" or with the error it raises.
Return(r) ==
    /\ pc' = "return"
    /\ k' = 0
    /\ nodes' = << >>
    /\ result' = r

\* The call goes on at position pos with the nodes ns.
Goto(pos, ns) ==
    IF pos[1] = "return" THEN Return("ok")
    ELSE /\ pc' = pos[1]
         /\ k' = pos[2]
         /\ nodes' = ns
         /\ result' = "running"

\* load_urdf(urdf_xml), lines 74-83.  It may be called any number of times
\* on one manager.
LoadStart(doc, maxcalls) ==
    /\ pc = "idle"
    /\ ncalls < maxcalls
    /\ call' = [op |-> "load_urdf"]
    /\ urdf' = doc
    /\ IF CheckRobot(doc) # "ok" THEN Return(CheckRobot(doc))
       ELSE Goto(Position(doc, << >>, "links", 1), << >>)
    /\ pre' = Stores
    /\ ncalls' = ncalls + 1
    /\ UNCHANGED <<transforms, joints, registered, static>>

\* load_urdf leaves: its document and its nodes are gone, the stores and
\* the outcome stay.
LoadReturn ==
    /\ pc = "return"
    /\ pc' = "idle"
    /\ urdf' = NoDoc
    /\ UNCHANGED <<transforms, joints, nodes, k, call, result, pre, ncalls,
                   registered, static>>

\* Lines 86-88: one link.
LinkStep ==
    /\ pc = "links"
    /\ LET r == ParseLink(nodes, LinksOf(urdf)[k], RobotOf(urdf).attrs.name)
       IN  IF r.err # "ok" THEN Return(r.err)
           ELSE Goto(Position(urdf, r.nodes, "links", k + 1), r.nodes)
    /\ UNCHANGED <<transforms, joints, call, pre, ncalls, urdf, registered, static>>

\* Lines 90-123: one joint.
JointStep ==
    /\ pc = "joints"
    /\ LET r == CheckJoint(transforms, joints, nodes, JointsOf(urdf)[k])
       IN  /\ transforms' = r.transforms
           /\ joints' = r.joints
           /\ IF r.err # "ok" THEN Return(r.err)
              ELSE Goto(Position(urdf, r.nodes, "joints", k + 1), r.nodes)
    /\ UNCHANGED <<call, pre, ncalls, urdf, registered, static>>

\* Lines 125-130: one node.
CommitStep ==
    /\ pc = "commit"
    /\ LET s == CommitNode(transforms, joints, nodes[k])
       IN  /\ transforms' = s.transforms
           /\ joints' = s.joints
    /\ registered' = RegisteredBy(nodes[k]) @@ registered
    /\ static' = static \cup StaticBy(nodes[k])
    /\ Goto(Position(urdf, nodes, "commit", k + 1), nodes)
    /\ UNCHANGED <<call, pre, ncalls, urdf>>

\* add_joint(joint_name, from_frame, to_frame, child2parent, axis)
AddJoint(args, maxcalls) ==
    /\ pc = "idle"
    /\ ncalls < maxcalls
    /\ \E a \in args :
         LET s == add_joint(transforms, joints, a.joint_name, a.from_frame,
                            a.to_frame, a.child2parent, a.axis)
         IN  /\ transforms' = s.transforms
             /\ joints' = s.joints
             /\ call' = [op |-> "add_joint", joint_name |-> a.joint_name,
                         from_frame |-> a.from_frame, to_frame |-> a.to_frame,
                         child2parent |-> a.child2parent, axis |-> a.axis]
             /\ registered' =
                  [n \in {a.joint_name} |->
                     [from_frame |-> a.from_frame, to_frame |-> a.to_frame,
                      child2parent |-> a.child2parent, axis |-> a.axis]]
                  @@ registered
    /\ result' = "ok"
    /\ pre' = Stores
    /\ ncalls' = ncalls + 1
    /\ UNCHANGED <<pc, nodes, k, urdf, static>>

\* set_joint(joint_name, angle)
SetJoint(names, angles, maxcalls) ==
    /\ pc = "idle"
    /\ ncalls < maxcalls
    /\ \E n \in names, angle \in angles :
         /\ call' = [op |-> "set_joint", joint_name |-> n, angle |-> angle]
         /\ IF n \notin DOMAIN joints
            THEN /\ result' = "UnknownJoint"
                 /\ UNCHANGED <<transforms, joints>>
            ELSE LET s == set_joint(transforms, joints, n, angle)
                 IN  /\ result' = "ok"
                     /\ transforms' = s.transforms
                     /\ joints' = s.joints
    /\ pre' = Stores
    /\ ncalls' = ncalls + 1
    /\ UNCHANGED <<pc, nodes, k, urdf, registered, static>>

\* add_transform(from_frame, to_frame, A2B), the method the manager inherits
\* from TransformManager, called by the user.
AddTransform(args, maxcalls) ==
    /\ pc = "idle"
    /\ ncalls < maxcalls
    /\ \E a \in args :
         /\ transforms' = add_transform(transforms, a.from_frame, a.to_frame, a.A2B)
         /\ call' = [op |-> "add_transform", from_frame |-> a.from_frame,
                     to_frame |-> a.to_frame, A2B |-> a.A2B]
    /\ result' = "ok"
    /\ pre' = Stores
    /\ ncalls' = ncalls + 1
    /\ UNCHANGED <<joints, pc, nodes, k, urdf, registered, static>>

(***************************************************************************)
(* Documents.                                                              *)
(***************************************************************************)
Doc(attrs, elems) == Elem("[document]", NoAttrs, <<Elem("robot", attrs, elems)>>)

Link(name) == Elem("link", [name |-> name], << >>)

Ref(tag, name) == Elem(tag, [link |-> name], << >>)

Joint(name, type, parent, child, more) ==
    Elem("joint", [name |-> name, type |-> type],
         <<Ref("parent", parent), Ref("child", child)>> \o more)

\* The links A and B and sound joints between them.
SoundElems ==
    {Link("A"), Link("B"),
     Joint("j1", "fixed", "A", "A", << >>),
     Joint("j1", "revolute", "A", "A", << >>),
     Joint("j1", "revolute", "A", "B", << >>),
     Joint("j2", "fixed", "A", "B", << >>),
     Joint("j2", "fixed", "B", "A", << >>)}

\* A link without a name, joints of every refused type, and joints that
\* miss an attribute or an element.
DefectElems ==
    {Elem("link", NoAttrs, << >>)}
    \cup {Joint("j1", t, "A", "A", << >>) :
            t \in {"planar", "floating", "continuous", "prismatic", "screw"}}
    \cup {Elem("joint", [type |-> "fixed"], <<Ref("parent", "A"), Ref("child", "A")>>),
          Elem("joint", [name |-> "j1"], <<Ref("parent", "A"), Ref("child", "A")>>),
          Elem("joint", [name |-> "j1", type |-> "fixed"], <<Ref("child", "A")>>),
          Elem("joint", [name |-> "j1", type |-> "fixed"],
               <<Elem("parent", NoAttrs, << >>), Ref("child", "A")>>),
          Elem("joint", [name |-> "j1", type |-> "fixed"], <<Ref("parent", "A")>>),
          Elem("joint", [name |-> "j1", type |-> "fixed"],
               <<Ref("parent", "A"), Elem("child", NoAttrs, << >>)>>)}

\* The elements of a document in their order: at most MaxElems of them, at
\* most one of them from DefectElems.  A link that a joint names may be
\* declared before it, after it, or not at all.
StructBody(es) ==
    Cardinality({i \in DOMAIN es : es[i] \in DefectElems}) <= 1

StructAdds ==
    {[joint_name |-> "j1", from_frame |-> "A", to_frame |-> "B",
      child2parent |-> Eye4, axis |-> <<1, 0, 0>>]}

StructEdges ==
    {[from_frame |-> "B", to_frame |-> "A",
      A2B |-> transform_from(Eye3, <<0, 1, 0>>)]}

\* load_urdf is called with a document without a robot, with a robot
\* without a name, or with a robot r of the elements es.
LoadStruct ==
    /\ pc = "idle"
    /\ \/ \E doc \in {NoDoc, Doc(NoAttrs, << >>)} : LoadStart(doc, MaxCalls)
       \/ \E n \in 0..MaxElems :
            \E es \in [1..n -> SoundElems \cup DefectElems] :
               StructBody(es) /\ LoadStart(Doc([name |-> "r"], es), MaxCalls)

Next ==
    \/ LoadStruct
    \/ LinkStep
    \/ JointStep
    \/ CommitStep
    \/ LoadReturn
    \/ AddJoint(StructAdds, MaxCalls)
    \/ SetJoint({"j1", "j2"}, {0, 1}, MaxCalls)
    \/ AddTransform(StructEdges, MaxCalls)

Spec == Init /\ [][Next]_vars

(***************************************************************************)
(* Sessions on the geometry: a robot of two links, base and arm, and one   *)
(* joint between them with every kind of origin and axis; joints           *)
(* registered by hand on the same edge; angles of 0 to 3 quarter turns.    *)
(***************************************************************************)
MaxGeomCalls == 3

Origins ==
    {<< >>,
     <<Elem("origin", NoAttrs, << >>)>>,
     <<Elem("origin", [xyz |-> "1 0 0"], << >>)>>,
     <<Elem("origin", [rpy |-> "0 0 1.5708"], << >>)>>,
     <<Elem("origin", [xyz |-> "0 2 3", rpy |-> "1.5708 1.5708 0"], << >>)>>,
     <<Elem("origin", [xyz |-> "1 0 0", rpy |-> "0 -1.5708 1.5708"], << >>)>>}

Axes ==
    {<< >>, <<Elem("axis", [xyz |-> "0 0 1"], << >>)>>}

GeomDocs ==
    {Doc([name |-> "r"],
         <<Link("base"), Link("arm"), Joint("j1", t, "base", "arm", o \o a)>>) :
       t \in {"fixed", "revolute"}, o \in Origins, a \in Axes}
    \cup {Doc([name |-> "r"],
              <<Link("base"), Link("arm"),
                Joint("j1", "revolute", "base", "arm",
                      <<Elem("origin", [xyz |-> "1 0 0"], << >>), a>>)>>) :
            a \in {Elem("axis", [xyz |-> "0 1 0"], << >>),
                   Elem("axis", NoAttrs, << >>)}}

GeomEdges ==
    {[from_frame |-> "arm", to_frame |-> "base",
      A2B |-> transform_from(matrix_from_angle(0, 1), <<0, 0, 1>>)]}

GeomAdds ==
    {[joint_name |-> "j1", from_frame |-> "arm", to_frame |-> "base",
      child2parent |-> t, axis |-> a] :
       t \in {Eye4, transform_from(matrix_from_angle(2, 1), <<1, 0, 0>>)},
       a \in {<<0, 0, 1>>, <<0, 1, 0>>}}
    \cup {[joint_name |-> "j2", from_frame |-> "arm", to_frame |-> "base",
           child2parent |-> transform_from(Eye3, <<0, 2, 3>>),
           axis |-> <<1, 0, 0>>]}

LoadGeom ==
    /\ pc = "idle"
    /\ \E doc \in GeomDocs : LoadStart(doc, MaxGeomCalls)

NextGeom ==
    \/ LoadGeom
    \/ LinkStep
    \/ JointStep
    \/ CommitStep
    \/ LoadReturn
    \/ AddJoint(GeomAdds, MaxGeomCalls)
    \/ SetJoint({"j1", "j2"}, 0..3, MaxGeomCalls)
    \/ AddTransform(GeomEdges, MaxGeomCalls)

SpecGeom == Init /\ [][NextGeom]_vars

(***************************************************************************)
(* What a document declares, read off the document itself.                 *)
(***************************************************************************)
AllElems(doc) == DescendantsOfAll(doc.children)

DeclaredLinks(doc) ==
    {AllElems(doc)[i].attrs.name :
        i \in {n \in 1..Len(AllElems(doc)) :
                 /\ AllElems(doc)[n].tag = "link"
                 /\ has_attr(AllElems(doc)[n], "name")}}

DeclaredJoints(doc) ==
    {AllElems(doc)[i] :
        i \in {n \in 1..Len(AllElems(doc)) : AllElems(doc)[n].tag = "joint"}}

\* The joint has the attribute link on its element tag (parent or child).
Names(joint, tag) == Found(joint, tag) /\ has_attr(find(joint, tag), "link")

\* The joint passes the checks of its name, its type's presence, its parent
\* and its child.
PassesChecks(doc, joint) ==
    /\ has_attr(joint, "name")
    /\ has_attr(joint, "type")
    /\ Names(joint, "parent")
    /\ find(joint, "parent").attrs.link \in DeclaredLinks(doc)
    /\ Names(joint, "child")
    /\ find(joint, "child").attrs.link \in DeclaredLinks(doc)

\* The document has a named robot, every link has a name and every joint
\* has a name, a type the loader accepts, a parent link and a child link.
WellFormed(doc) ==
    /\ CheckRobot(doc) = "ok"
    /\ \A i \in 1..Len(AllElems(doc)) :
          AllElems(doc)[i].tag = "link" => has_attr(AllElems(doc)[i], "name")
    /\ \A j \in DeclaredJoints(doc) :
          /\ has_attr(j, "name")
          /\ has_attr(j, "type")
          /\ j.attrs.type \in {"fixed", "revolute"}
          /\ Names(j, "parent")
          /\ Names(j, "child")

DocumentErrors ==
    {"MissingRobotElement", "MissingRobotName", "MissingLinkName",
     "MissingJointName", "MissingJointType", "MissingJointParent",
     "MissingParentLinkName", "UnknownParentLink", "MissingJointChild",
     "MissingChildLinkName", "UnknownChildLink", "UnsupportedJointType",
     "InvalidJointType"}

\* load_urdf has its outcome and still holds its document.
Loaded == pc = "return"

(***************************************************************************)
(* C1, as stated: whenever a joint of the document names an undeclared     *)
(* parent (child) link, the load fails with UnknownParentLink              *)
(* (UnknownChildLink), and when every named link is declared it fails      *)
(* with neither.  The code refutes it: the first failing check decides.    *)
(***************************************************************************)
C1_AsStated ==
    (Loaded /\ WellFormed(urdf)) =>
        /\ \A j \in DeclaredJoints(urdf) :
             /\ (Names(j, "parent")
                   /\ find(j, "parent").attrs.link \notin DeclaredLinks(urdf))
                => result = "UnknownParentLink"
             /\ (Names(j, "child")
                   /\ find(j, "child").attrs.link \notin DeclaredLinks(urdf))
                => result = "UnknownChildLink"
        /\ (\A j \in DeclaredJoints(urdf) :
              /\ Names(j, "parent") =>
                   find(j, "parent").attrs.link \in DeclaredLinks(urdf)
              /\ Names(j, "child") =>
                   find(j, "child").attrs.link \in DeclaredLinks(urdf))
           => result \notin {"UnknownParentLink", "UnknownChildLink"}

(***************************************************************************)
(* C1, amended: for the joint load_urdf has reached (every link has a name *)
(* and every earlier joint was accepted), if it has a name, a type and a   *)
(* parent link name that no link element of the document declares, the     *)
(* load fails with UnknownParentLink; if the parent is declared and its    *)
(* child link name is not, the load fails with UnknownChildLink; a         *)
(* declared link raises neither error at this joint.  Whether the link     *)
(* elements stand before or after the joint makes no difference.           *)
(***************************************************************************)
C1_UnknownLinkAtReachedJoint ==
    [][pc = "joints" =>
        LET j == JointsOf(urdf)[k]
            named == has_attr(j, "name") /\ has_attr(j, "type")
            parentKnown ==
                /\ Names(j, "parent")
                /\ find(j, "parent").attrs.link \in DeclaredLinks(urdf)
            childKnown ==
                /\ Names(j, "child")
                /\ find(j, "child").attrs.link \in DeclaredLinks(urdf)
        IN  /\ (named /\ Names(j, "parent") /\ ~parentKnown)
                 => result' = "UnknownParentLink"
            /\ (named /\ parentKnown /\ Names(j, "child") /\ ~childKnown)
                 => result' = "UnknownChildLink"
            /\ parentKnown => result' # "UnknownParentLink"
            /\ childKnown => result' # "UnknownChildLink"]_vars

\* A joint that stands before the link element of its parent: the parent is
\* found all the same, and the undeclared child is reported.
C1_Witness ==
    /\ Loaded
    /\ CheckRobot(urdf) = "ok"
    /\ result = "UnknownChildLink"
    /\ RobotOf(urdf).children[1].tag = "joint"
    /\ DeclaredLinks(urdf) # {}

(***************************************************************************)
(* C7: a joint that passes the checks of its name, its type's presence,    *)
(* its parent and its child fails the load with UnsupportedJointType when  *)
(* its type is planar, floating, continuous or prismatic, with             *)
(* InvalidJointType when its type is any other value than fixed and        *)
(* revolute, and is accepted when its type is fixed or revolute.           *)
(***************************************************************************)
C7_JointTypes ==
    [][(pc = "joints" /\ PassesChecks(urdf, JointsOf(urdf)[k])) =>
        LET type == JointsOf(urdf)[k].attrs.type
        IN  CASE type \in {"planar", "floating", "continuous", "prismatic"}
                   -> result' = "UnsupportedJointType"
              [] type \in {"fixed", "revolute"}
                   -> result' = "running"
              [] OTHER
                   -> result' = "InvalidJointType"]_vars

C7_Witness ==
    /\ Loaded
    /\ CheckRobot(urdf) = "ok"
    /\ result = "UnsupportedJointType"
    /\ \E j \in DeclaredJoints(urdf) :
         PassesChecks(urdf, j) /\ j.attrs.type = "continuous"

(***************************************************************************)
(* C10: inside load_urdf every link element has its node before the first  *)
(* joint is looked at, and every joint element has been checked and merged *)
(* onto its node before the first edge is committed or joint registered;   *)
(* a load that fails with a document error leaves transforms and joints as *)
(* they were when it was called.                                           *)
(***************************************************************************)
C10_PassesInOrder ==
    /\ pc = "joints" =>
         \A name \in DeclaredLinks(urdf) : NodesHas(nodes, name)
    /\ pc \in {"links", "joints"} => Stores = pre
    /\ pc = "commit" =>
         \A j \in DeclaredJoints(urdf) :
            /\ PassesChecks(urdf, j)
            /\ j.attrs.type \in {"fixed", "revolute"}
            /\ NodesGet(nodes, find(j, "child").attrs.link).joint_name # None
    /\ (Loaded /\ result \in DocumentErrors) => Stores = pre

\* A load on a manager that already holds a joint fails at its second joint,
\* after the first one was accepted.
C10_Witness ==
    /\ Loaded
    /\ CheckRobot(urdf) = "ok"
    /\ result \in DocumentErrors
    /\ pre.joints # NoJoints
    /\ Len(JointsOf(urdf)) = 2
    /\ PassesChecks(urdf, JointsOf(urdf)[1])
    /\ JointsOf(urdf)[1].attrs.type = "revolute"

(***************************************************************************)
(* C2, as stated: after a successful load every joint the document         *)
(* declares revolute has a record in joints and no joint it declares fixed *)
(* has one, also when two joints name the same child link or share a name, *)
(* or an earlier call registered the name.  The code breaks it.            *)
(***************************************************************************)
C2_RegisteredIffRevolute ==
    (Loaded /\ result = "ok") =>
        \A j \in DeclaredJoints(urdf) :
            /\ j.attrs.type = "revolute" => j.attrs.name \in DOMAIN joints
            /\ j.attrs.type = "fixed" => j.attrs.name \notin DOMAIN joints

(***************************************************************************)
(* C6: set_joint on a name that was never handed to add_joint, by a caller *)
(* or by load_urdf, fails with UnknownJoint and changes nothing; the names *)
(* of the joints load_urdf committed as fixed are such names.              *)
(***************************************************************************)
C6_UnknownJoint ==
    (pc = "idle" /\ call.op = "set_joint"
       /\ call.joint_name \notin DOMAIN registered)
        => (result = "UnknownJoint" /\ Stores = pre)

\* set_joint is called with the name of a fixed joint of the loaded document.
C6_Witness ==
    /\ pc = "idle"
    /\ call.op = "set_joint"
    /\ call.joint_name \in static \ DOMAIN registered
    /\ result = "UnknownJoint"

(***************************************************************************)
(* The same document under another robot name.                             *)
(***************************************************************************)
Rename(doc, name) == Doc([name |-> name], RobotOf(doc).children)

\* The links no joint of the document has as its child.
RootLinks(doc) ==
    DeclaredLinks(doc) \ {find(j, "child").attrs.link : j \in DeclaredJoints(doc)}

OtherRobotNames == {"r2", "A"}

(***************************************************************************)
(* C8, as stated: two documents that differ only in the robot name leave,  *)
(* after a successful load, the same frames, edges and joint records, and  *)
(* the robot name is no frame.  The code refutes it.                       *)
(***************************************************************************)
C8_AsStated ==
    (Loaded /\ result = "ok") =>
        /\ \A n \in OtherRobotNames :
             LET o == load_urdf(pre.transforms, pre.joints, Rename(urdf, n))
             IN  /\ o.err = "ok"
                 /\ o.transforms = transforms
                 /\ o.joints = joints
        /\ RobotOf(urdf).attrs.name
             \notin Frames(transforms) \ Frames(pre.transforms)

(***************************************************************************)
(* C8, amended: the robot name has one effect.  Every link that no joint   *)
(* of the document has as its child is committed with the identity         *)
(* transform as an edge from the link to the frame named by the robot      *)
(* name.  Apart from these edges, two documents that differ only in the    *)
(* robot name leave the same edges and the same joint records.             *)
(***************************************************************************)
C8_RobotNameIsRootFrame ==
    (Loaded /\ result = "ok") =>
        \A n \in OtherRobotNames :
            LET o == load_urdf(pre.transforms, pre.joints, Rename(urdf, n))
                r == RobotOf(urdf).attrs.name
                root == RootLinks(urdf) \X {r, n}
            IN  /\ o.err = "ok"
                /\ o.joints = joints
                /\ (DOMAIN o.transforms) \ root = (DOMAIN transforms) \ root
                /\ \A e \in (DOMAIN transforms) \ root :
                      o.transforms[e] = transforms[e]
                /\ \A l \in RootLinks(urdf) :
                      /\ <<l, r>> \in DOMAIN transforms
                      /\ transforms[<<l, r>>] = Eye4
                      /\ <<l, n>> \in DOMAIN o.transforms
                      /\ o.transforms[<<l, n>>] = Eye4

\* A loaded document with a root link and a joint below it.
C8_Witness ==
    /\ Loaded
    /\ result = "ok"
    /\ RootLinks(urdf) # {}
    /\ \E j \in DeclaredJoints(urdf) :
         find(j, "parent").attrs.link \in RootLinks(urdf)

(***************************************************************************)
(* set_joint has returned without an error; the joint it moved as it was   *)
(* registered, and the edge it has committed.                              *)
(***************************************************************************)
JointSet == pc = "idle" /\ call.op = "set_joint" /\ result = "ok"

Moved == registered[call.joint_name]

MovedEdge == <<Moved.from_frame, Moved.to_frame>>

\* The pure rotation of the moved joint by the angle of the call.
MovedRotation == matrix_from_axis_angle(Moved.axis \o <<call.angle>>)

(***************************************************************************)
(* C3: set_joint commits, as the edge from the child to the parent, the    *)
(* registered transform T applied after the pure rotation R(axis, angle)   *)
(* of the child frame: the matrix T . R.  Its translation is the           *)
(* translation of T for every angle, and its rotation is the rotation of   *)
(* T times R.  With origin xyz = "1 0 0", axis "0 0 1" and a quarter turn, *)
(* the edge from arm to base has translation (1, 0, 0) and the rotation    *)
(* of a quarter turn about z.                                              *)
(***************************************************************************)
C3_RotationThenOrigin ==
    JointSet =>
        /\ MovedEdge \in DOMAIN transforms
        /\ transforms[MovedEdge]
             = Dot4(Moved.child2parent, transform_from(MovedRotation, Zeros3))
        /\ TranslationOf(transforms[MovedEdge]) = TranslationOf(Moved.child2parent)
        /\ RotationOf(transforms[MovedEdge])
             = Dot3(RotationOf(Moved.child2parent), MovedRotation)
        /\ (/\ Moved = [from_frame |-> "arm", to_frame |-> "base",
                        child2parent |-> transform_from(Eye3, <<1, 0, 0>>),
                        axis |-> <<0, 0, 1>>]
            /\ call.angle = 1)
           => transforms[<<"arm", "base">>]
                = << <<0, -1, 0, 1>>, <<1, 0, 0, 0>>, <<0, 0, 1, 0>>, <<0, 0, 0, 1>> >>

\* The end-to-end scenario: the document is loaded, then j1 is set to a
\* quarter turn.
C3_Witness ==
    /\ JointSet
    /\ <<"base", "r">> \in DOMAIN transforms
    /\ ncalls = 2
    /\ call.joint_name = "j1"
    /\ call.angle = 1
    /\ Moved.child2parent = transform_from(Eye3, <<1, 0, 0>>)
    /\ Moved.axis = <<0, 0, 1>>

(***************************************************************************)
(* C4: add_joint(name, c, p, T, axis) commits T as the edge (c, p) at      *)
(* once, and set_joint(name, 0) commits exactly T as the edge (c, p),      *)
(* also after the joint has been set to other angles.                      *)
(***************************************************************************)
C4_AngleZero ==
    /\ (pc = "idle" /\ call.op = "add_joint") =>
          /\ <<call.from_frame, call.to_frame>> \in DOMAIN transforms
          /\ transforms[<<call.from_frame, call.to_frame>>] = call.child2parent
    /\ (JointSet /\ call.angle = 0) =>
          /\ MovedEdge \in DOMAIN transforms
          /\ transforms[MovedEdge] = Moved.child2parent

\* The joint stood at another angle, and its transform is not the identity.
C4_Witness ==
    /\ JointSet
    /\ call.angle = 0
    /\ Moved.child2parent # Eye4
    /\ pre.transforms[MovedEdge] # Moved.child2parent

(***************************************************************************)
(* C5: set_joint changes the edge of the joint and nothing else: no other  *)
(* edge, and no field of the record of this or of any other joint, which   *)
(* stay as they were registered.  So the edge it commits is decided by the *)
(* angle of this call alone, whatever angles were set before.              *)
(***************************************************************************)
C5_OnlyTheEdge ==
    JointSet =>
        /\ joints = pre.joints
        /\ joints = registered
        /\ DOMAIN transforms = DOMAIN pre.transforms \cup {MovedEdge}
        /\ \A e \in DOMAIN pre.transforms \ {MovedEdge} :
              transforms[e] = pre.transforms[e]
        /\ \A before \in {Eye4, Moved.child2parent, pre.transforms[MovedEdge]} :
              transforms[MovedEdge]
                = set_joint(add_transform(pre.transforms, MovedEdge[1],
                                          MovedEdge[2], before),
                            registered, call.joint_name,
                            call.angle).transforms[MovedEdge]

\* The joint is set for the second time, to another angle than before, in a
\* registry of two joints.
C5_Witness ==
    /\ JointSet
    /\ Cardinality(DOMAIN joints) = 2
    /\ pre.transforms[MovedEdge] # Moved.child2parent
    /\ transforms[MovedEdge] # pre.transforms[MovedEdge]
    /\ transforms[MovedEdge] # Moved.child2parent

(***************************************************************************)
(* C9: for every joint of a loaded document, the committed child-to-parent *)
(* transform has the translation of the attribute xyz of its origin (zero  *)
(* without one) and, when the origin has the attribute rpy, the transpose  *)
(* of the Euler matrix of rpy as its rotation, not the matrix itself; the  *)
(* rotation is the identity when origin or rpy is absent.  For             *)
(* rpy = (0, 0, pi/2) and no translation the rotation is the transpose of  *)
(* the quarter turn about z.                                               *)
(***************************************************************************)
C9_OriginTransposed ==
    (Loaded /\ result = "ok") =>
        \A j \in DeclaredJoints(urdf) :
            LET edge == <<find(j, "child").attrs.link, find(j, "parent").attrs.link>>
                hasXyz == Found(j, "origin") /\ has_attr(find(j, "origin"), "xyz")
                hasRpy == Found(j, "origin") /\ has_attr(find(j, "origin"), "rpy")
                euler == matrix_from_euler_xyz(fromstring(find(j, "origin").attrs.rpy))
            IN  /\ edge \in DOMAIN transforms
                /\ TranslationOf(transforms[edge])
                     = IF hasXyz THEN fromstring(find(j, "origin").attrs.xyz)
                       ELSE <<0, 0, 0>>
                /\ hasRpy =>
                     \A r \in 1..3, c \in 1..3 :
                        transforms[edge][r][c] = euler[c][r]
                /\ ~hasRpy => RotationOf(transforms[edge]) = Eye3
                /\ (hasRpy /\ ~hasXyz
                      /\ find(j, "origin").attrs.rpy = "0 0 1.5708")
                   => transforms[edge]
                        = << <<0, 1, 0, 0>>, <<-1, 0, 0, 0>>, <<0, 0, 1, 0>>,
                             <<0, 0, 0, 1>> >>

\* A fixed joint with rpy = (0, 0, pi/2) and no translation has been loaded.
C9_Witness ==
    /\ Loaded
    /\ result = "ok"
    /\ \E j \in DeclaredJoints(urdf) :
         /\ j.attrs.type = "fixed"
         /\ Found(j, "origin")
         /\ find(j, "origin").attrs = [rpy |-> "0 0 1.5708"]

====
